---- MODULE Spec2Model ----
(***************************************************************************)
(* Model of the turbidity monitor firmware                                 *)
(* (src/firmware/water_quality_monitorcode.ino): the calibration store,    *)
(* the median sampler, the EMA smoother, the index mapper, the classifier, *)
(* the status LED, the long-press detector, setup() and loop().            *)
(*                                                                         *)
(* Numbers.  uint16_t values are naturals below 65536.  millis() is a      *)
(* natural that stays far below 2^31 within the explored time, so the      *)
(* unsigned differences "now - x" of the code never wrap here.  A float    *)
(* is a pair <<m, e>> standing for m * 2^e with 2^23 <= |m| < 2^24, or     *)
(* <<0, 0>> for zero: IEEE-754 binary32 without subnormals, infinities and *)
(* NaN (a division by zero is modelled apart, see DivOutcomes).  Every     *)
(* float operation rounds to nearest, ties to even, as binary32 does.  A   *)
(* product that is added to may be fused with the addition by the build    *)
(* (one rounding instead of two), see FMulAdd and Smooth.                  *)
(***************************************************************************)
EXTENDS Integers, Sequences, FiniteSets, TLC

\* ----------------------------------------------------------------------
\* binary32 arithmetic on naturals (TLC integers are 32-bit, so wide
\* products and quotients are kept as base-4096 digit strings)
\* ----------------------------------------------------------------------
RECURSIVE Pow2(_)
Pow2(n) == IF n = 0 THEN 1 ELSE 2 * Pow2(n - 1)

RECURSIVE BitLen(_)
BitLen(x) == IF x = 0 THEN 0 ELSE 1 + BitLen(x \div 2)

\* Base-4096 digits (most significant first) of the number whose "digits" ds
\* may each exceed 4095; carry comes in from the right.
RECURSIVE Norm(_, _)
Norm(ds, carry) ==
    IF ds = <<>>
    THEN IF carry = 0 THEN <<>> ELSE Norm(<<>>, carry \div 4096) \o <<carry % 4096>>
    ELSE LET v == ds[Len(ds)] + carry
         IN  Norm(SubSeq(ds, 1, Len(ds) - 1), v \div 4096) \o <<v % 4096>>

\* The binary32 nearest (ties to even) to N * 2^e, N the number with base-4096
\* digits ds; sticky says that the exact value lies strictly above N * 2^e
\* (by less than 2^e).
RECURSIVE F32(_, _, _)
F32(ds, e, sticky) ==
    IF ds = <<>> THEN <<0, 0>>
    ELSE IF Head(ds) = 0 THEN F32(Tail(ds), e, sticky)
    ELSE IF Len(ds) < 3 THEN F32(ds \o <<0>>, e - 12, sticky)
    ELSE LET L     == BitLen(ds[1])
             hi    == ds[1] * 4096 + ds[2]
             lo    == ds[3]
             m0    == hi * Pow2(12 - L) + lo \div Pow2(L)
             guard == (lo \div Pow2(L - 1)) % 2
             st    == \/ sticky
                      \/ lo % Pow2(L - 1) # 0
                      \/ \E i \in 4..Len(ds) : ds[i] # 0
             m1    == IF guard = 1 /\ (st \/ m0 % 2 = 1) THEN m0 + 1 ELSE m0
             e1    == e + 12 * (Len(ds) - 3) + L
         IN  IF m1 = 16777216 THEN <<8388608, e1 + 1>> ELSE <<m1, e1>>

\* (float)n for an integer 0 <= n < 2^24: exact.
FromInt(n) == F32(<<n \div 4096, n % 4096>>, 0, FALSE)

\* a * b for floats a, b >= 0.
FMul(a, b) ==
    IF a[1] = 0 \/ b[1] = 0 THEN <<0, 0>>
    ELSE LET ah == a[1] \div 4096
             al == a[1] % 4096
             bh == b[1] \div 4096
             bl == b[1] % 4096
         IN  F32(Norm(<<ah * bh, ah * bl + al * bh, al * bl>>, 0), a[2] + b[2], FALSE)

Zeros(k) == [i \in 1..k |-> 0]

\* a + b for floats a, b >= 0.
FAdd(a, b) ==
    IF a[1] = 0 THEN b
    ELSE IF b[1] = 0 THEN a
    ELSE LET big   == IF a[2] >= b[2] THEN a ELSE b
             small == IF a[2] >= b[2] THEN b ELSE a
             d     == big[2] - small[2]
             k     == d \div 12
             r     == d % 12
             bd    == <<(big[1] \div 4096) * Pow2(r), (big[1] % 4096) * Pow2(r)>> \o Zeros(k)
             sd    == Zeros(k) \o <<small[1] \div 4096, small[1] % 4096>>
         IN  IF d > 25 THEN big
             ELSE F32(Norm([i \in 1..(k + 2) |-> bd[i] + sd[i]], 0), small[2], FALSE)

\* a * b + c for floats a, b, c >= 0 with one rounding: the fused
\* multiply-add a build may contract "a * b + c" to.
FMulAdd(a, b, c) ==
    IF a[1] = 0 \/ b[1] = 0 THEN c
    ELSE IF c[1] = 0 THEN FMul(a, b)
    ELSE LET ah     == a[1] \div 4096
             al     == a[1] % 4096
             bh     == b[1] \div 4096
             bl     == b[1] % 4096
             pd     == Norm(<<ah * bh, ah * bl + al * bh, al * bl>>, 0)
             pe     == a[2] + b[2]
             cd     == <<c[1] \div 4096, c[1] % 4096>>
             bigd   == IF pe >= c[2] THEN pd ELSE cd
             bige   == IF pe >= c[2] THEN pe ELSE c[2]
             smalld == IF pe >= c[2] THEN cd ELSE pd
             smalle == IF pe >= c[2] THEN c[2] ELSE pe
             d      == bige - smalle
             bd     == [i \in 1..Len(bigd) |-> bigd[i] * Pow2(d % 12)] \o Zeros(d \div 12)
             n      == IF Len(bd) >= Len(smalld) THEN Len(bd) ELSE Len(smalld)
             x      == Zeros(n - Len(bd)) \o bd
             y      == Zeros(n - Len(smalld)) \o smalld
         IN  F32(Norm([i \in 1..n |-> x[i] + y[i]], 0), smalle, FALSE)

\* (float)p / (float)q for integers 0 <= p, 0 < q, both below 2^16.
FDiv(p, q) ==
    LET d0 == p \div q
        r0 == p % q
        d1 == (r0 * 4096) \div q
        r1 == (r0 * 4096) % q
        d2 == (r1 * 4096) \div q
        r2 == (r1 * 4096) % q
        d3 == (r2 * 4096) \div q
        r3 == (r2 * 4096) % q
        d4 == (r3 * 4096) \div q
        r4 == (r3 * 4096) % q
    IN  F32(Norm(<<d0, d1, d2, d3, d4>>, 0), -48, r4 # 0)

\* (int)x, (uint16_t)x for a float 0 <= x < 2^16: truncation.
FTrunc(x) ==
    IF x[2] >= 0 THEN x[1] * Pow2(x[2])
    ELSE IF -x[2] > 24 THEN 0
    ELSE x[1] \div Pow2(-x[2])

\* x < 0.0f
FNeg(x) == x[1] < 0

\* a > b for floats a, b >= 0.
FGt(a, b) ==
    /\ a[1] # 0
    /\ \/ b[1] = 0
       \/ a[2] > b[2]
       \/ a[2] = b[2] /\ a[1] > b[1]

Half == <<8388608, -24>>               \* 0.5f
One == <<8388608, -23>>                \* 1.0f
Hundred == <<13107200, -17>>           \* 100.0f
MinusOne == <<-8388608, -23>>          \* -1.0f

\* C's integer division (truncation toward zero), b > 0.
TruncDiv(a, b) == IF a >= 0 THEN a \div b ELSE -((-a) \div b)

\* ----------------------------------------------------------------------
\* Configuration of the firmware
\* ----------------------------------------------------------------------
STATUS_LED_PIN == 8
PIN_LED == 13                           \* the board's built-in LED, as its core defines it
MEDIAN_SAMPLE_COUNT == 31
SAMPLE_SPACING_MS == 3
EMA_ALPHA == <<13421773, -26>>          \* 0.20f
OneMinusAlpha == <<13421773, -24>>      \* 1.0f - EMA_ALPHA, rounded to binary32
DEBOUNCE_MS == 40
LONG_PRESS_MS == 2000
CAL_MAGIC == <<21589, 21058>>           \* 0x54555242 as <<high half, low half>>
THRESH_CLEAR == 30
THRESH_MODERATE == 70
LED_TOGGLE_MS == 700
ADC_MAX == 4095
SETUP_SERIAL_DELAY_MS == 200
SETUP_SPLASH_DELAY_MS == 1200
CAL_MESSAGE_DELAY_MS == 900
LOOP_DELAY_MS == 350

\* Stands for "no value" where the model records a time or a sample.
NoSample == 0 - 1

CalStages == {"CAL_NONE", "CAL_WAIT_CLEAR", "CAL_WAIT_CLOUDY", "CAL_DONE"}

\* struct CalData; magic is kept as its two 16-bit halves.
CalData(magic, clearRaw, cloudyRaw, crc) ==
    [magic |-> magic, clearRaw |-> clearRaw, cloudyRaw |-> cloudyRaw, crc |-> crc]

\* static CalData cal {}
ZeroCal == CalData(<<0, 0>>, 0, 0, 0)

\* ----------------------------------------------------------------------
\* Calibration store
\* ----------------------------------------------------------------------
checksum16(d) == (d.magic[2] + d.magic[1] + d.clearRaw + d.cloudyRaw) % 65536

\* loadCalibration without its third check.
loadCalibrationNoDegenerate(stored) ==
    [cal |-> stored,
     calLoaded |-> stored.magic = <<21589, 21058>>
                   /\ stored.crc = (stored.magic[2] + stored.magic[1]
                                     + stored.clearRaw + stored.cloudyRaw) % 65536]

\* EEPROM.get into cal, then the three checks; the result is the new
\* in-memory record and the loaded flag.
loadCalibration(stored) ==
    IF stored.magic # CAL_MAGIC THEN [cal |-> stored, calLoaded |-> FALSE]
    ELSE IF stored.crc # checksum16(stored) THEN [cal |-> stored, calLoaded |-> FALSE]
    ELSE IF stored.clearRaw = stored.cloudyRaw THEN [cal |-> stored, calLoaded |-> FALSE]
    ELSE [cal |-> stored, calLoaded |-> TRUE]

\* Sets the four fields of cal, EEPROM.put of cal, calLoaded = true.
saveCalibration(clearRaw, cloudyRaw) ==
    LET d == CalData(CAL_MAGIC, clearRaw, cloudyRaw, 0)
        c == [d EXCEPT !.crc = checksum16(d)]
    IN  [cal |-> c, eeprom |-> c, calLoaded |-> TRUE]

\* ----------------------------------------------------------------------
\* Median of a burst
\* ----------------------------------------------------------------------
\* The inner while loop: key is put into the sorted prefix arr[1..j], whose
\* larger elements move one place up.
\* The inner loop stopping one place early ("j > 0"): the first element
\* never moves.
RECURSIVE InsertKeyStopsEarly(_, _, _)
InsertKeyStopsEarly(arr, j, key) ==
    IF j >= 2 /\ arr[j] > key
    THEN InsertKeyStopsEarly([arr EXCEPT ![j + 1] = arr[j]], j - 1, key)
    ELSE [arr EXCEPT ![j + 1] = key]

RECURSIVE InsertKey(_, _, _)
InsertKey(arr, j, key) ==
    IF j >= 1 /\ arr[j] > key
    THEN InsertKey([arr EXCEPT ![j + 1] = arr[j]], j - 1, key)
    ELSE [arr EXCEPT ![j + 1] = key]

RECURSIVE SortFrom(_, _, _)
SortFrom(arr, i, n) ==
    IF i > n THEN arr ELSE SortFrom(InsertKey(arr, i - 1, arr[i]), i + 1, n)

\* insertionSort(arr, n); the C index i = 1 is position 2 here.
insertionSort(arr, n) == SortFrom(arr, 2, n)

\* samples: the MEDIAN_SAMPLE_COUNT readings analogRead gives in the burst.
readTurbidityMedian(samples) ==
    insertionSort(samples, MEDIAN_SAMPLE_COUNT)[(MEDIAN_SAMPLE_COUNT \div 2) + 1]

BurstMs == MEDIAN_SAMPLE_COUNT * SAMPLE_SPACING_MS

\* ----------------------------------------------------------------------
\* Index mapper
\* ----------------------------------------------------------------------
\* Arduino's map(x, in_min, in_max, out_min, out_max) on long.
ArduinoMap(x, inMin, inMax, outMin, outMax) ==
    TruncDiv((x - inMin) * (outMax - outMin), inMax - inMin) + outMin

Clamp100(i) == IF i < 0 THEN 0 ELSE IF i > 100 THEN 100 ELSE i

\* The calibrated branch divides by (float)0 exactly when the two references
\* are equal.
DividesByZero(loaded, c) == loaded /\ c.clearRaw = c.cloudyRaw

\* The results a build can give for x / 0.0f followed by the clamps, *100,
\* +0.5 and (int): +inf gives 100, -inf gives 0, and 0/0 is a NaN that
\* passes both clamps of t, whose conversion to int is undefined; whatever
\* int it gives, the last two clamps leave a value in 0..100.
DivOutcomes(num) ==
    IF num > 0 THEN {100} ELSE IF num < 0 THEN {0} ELSE 0..100

\* ClampedRatio with a negative t reflected instead of clamped to 0.
ClampedRatioReflected(num, den) ==
    LET t == FDiv(IF num < 0 THEN -num ELSE num, den)
    IN  IF FGt(t, <<8388608, -23>>) THEN <<8388608, -23>> ELSE t

\* t after the division and the clamp to [0, 1], den > 0.
ClampedRatio(num, den) ==
    IF num < 0 THEN <<0, 0>>
    ELSE LET t == FDiv(num, den)
         IN  IF FGt(t, One) THEN One ELSE t

\* The set of values computeTurbidityIndex(raw) can return with the given
\* calLoaded and cal: one value, except after a 0/0.
computeTurbidityIndex(raw, loaded, c) ==
    IF ~loaded THEN {Clamp100(ArduinoMap(raw, 0, ADC_MAX, 100, 0))}
    ELSE LET num == IF c.cloudyRaw > c.clearRaw THEN raw - c.clearRaw ELSE c.clearRaw - raw
             den == IF c.cloudyRaw > c.clearRaw THEN c.cloudyRaw - c.clearRaw
                                               ELSE c.clearRaw - c.cloudyRaw
         IN  IF den = 0 THEN DivOutcomes(num)
             ELSE {Clamp100(FTrunc(FAdd(FMul(ClampedRatio(num, den), Hundred), Half)))}

\* ----------------------------------------------------------------------
\* Classifier
\* ----------------------------------------------------------------------
\* classifyStatus with the thresholds taken as inclusive upper edges.
classifyStatusInclusive(idx) ==
    IF idx <= THRESH_CLEAR THEN "CLEAR"
    ELSE IF idx <= THRESH_MODERATE THEN "MODERATE"
    ELSE "TURBID"

classifyStatus(idx) ==
    IF idx < THRESH_CLEAR THEN "CLEAR"
    ELSE IF idx < THRESH_MODERATE THEN "MODERATE"
    ELSE "TURBID"

\* ----------------------------------------------------------------------
\* Status LED.  led = [pins, lastToggle, ledState]; pins maps a pin to the
\* level last written to it (TRUE is HIGH); t is millis().
\* ----------------------------------------------------------------------
updateLed(led, idx, t) ==
    IF idx < THRESH_CLEAR THEN [led EXCEPT !.pins[PIN_LED] = FALSE]
    ELSE IF idx < THRESH_MODERATE
    THEN IF t - led.lastToggle >= LED_TOGGLE_MS
         THEN [pins |-> [led.pins EXCEPT ![PIN_LED] = ~led.ledState],
               lastToggle |-> t, ledState |-> ~led.ledState]
         ELSE led
    ELSE [led EXCEPT !.pins[PIN_LED] = TRUE]

\* ----------------------------------------------------------------------
\* Long-press detector.  b holds the function's statics; the result is the
\* new statics and the value returned.
\* ----------------------------------------------------------------------
\* The detector without the longFired latch: it returns true on every call
\* of a hold that is long enough.
buttonLongPressEventRepeats(b, rawPressed, t) ==
    LET lastChange1 == IF rawPressed # b.lastRaw THEN t ELSE b.lastChange
        debounced1  == IF t - lastChange1 > DEBOUNCE_MS THEN rawPressed ELSE b.debounced
        pressStart1 == IF ~debounced1 THEN 0
                       ELSE IF b.pressStart = 0 THEN t ELSE b.pressStart
        fire        == debounced1 /\ pressStart1 # 0 /\ t - pressStart1 >= LONG_PRESS_MS
    IN  [st |-> [lastRaw |-> rawPressed, debounced |-> debounced1,
                 lastChange |-> lastChange1, pressStart |-> pressStart1,
                 longFired |-> fire],
         fired |-> fire]

buttonLongPressEvent(b, rawPressed, t) ==
    LET lastRaw1    == rawPressed
        lastChange1 == IF rawPressed # b.lastRaw THEN t ELSE b.lastChange
        debounced1  == IF t - lastChange1 > DEBOUNCE_MS THEN lastRaw1 ELSE b.debounced
        start       == debounced1 /\ b.pressStart = 0
        pressStart1 == IF start THEN t ELSE b.pressStart
        longFired1  == IF start THEN FALSE ELSE b.longFired
        pressStart2 == IF ~debounced1 THEN 0 ELSE pressStart1
        longFired2  == IF ~debounced1 THEN FALSE ELSE longFired1
        fire        == /\ debounced1
                       /\ ~longFired2
                       /\ pressStart2 # 0
                       /\ t - pressStart2 >= LONG_PRESS_MS
    IN  [st |-> [lastRaw |-> lastRaw1, debounced |-> debounced1,
                 lastChange |-> lastChange1, pressStart |-> pressStart2,
                 longFired |-> (IF fire THEN TRUE ELSE longFired2)],
         fired |-> fire]

\* ----------------------------------------------------------------------
\* State
\* ----------------------------------------------------------------------
VARIABLES
    pc,            \* "boot" before setup() has run, "run" once loop() repeats
    eeprom,        \* the CalData record at EEPROM_ADDR
    cal,           \* static CalData cal
    calLoaded,     \* static bool calLoaded
    calStage,      \* static CalStage calStage
    emaRaw,        \* static float emaRaw
    btn,           \* the statics of buttonLongPressEvent
    led,           \* the statics of updateLed and the level written to each pin
    lcdAvailable,  \* static bool lcdAvailable
    now,           \* millis() at the start of the next loop()
    row,           \* the CSV row of the last cycle (empty before the first), and
                   \* whether that pass of loop() saw a long-press event
    divZero,       \* whether the last index computation divided by zero
    watch,         \* history of the long-press detector's calls, see Observe
    bootLoaded,    \* history: calLoaded as setup() left it
    pressLog       \* history: per long-press event, the stage it found and the median it sampled

vars == <<pc, eeprom, cal, calLoaded, calStage, emaRaw, btn, led, lcdAvailable,
          now, row, divZero, watch, bootLoaded, pressLog>>

\* ----------------------------------------------------------------------
\* Bounds and inputs
\* ----------------------------------------------------------------------
\* loop() is entered while millis() is at most this.
MaxTime == 10000

\* The same for the runs in which the user holds the button until the
\* press registers.
FlowMaxTime == 26000

\* The detector alone is called while the clock is at most this.
ButtonMaxTime == 4400

\* Median levels of the sensor in the waters the probe is put in.
Levels == {300, 900}

\* The level the sensor stays at in the runs that explore the button.
SteadyLevels == {600}

\* A burst of MEDIAN_SAMPLE_COUNT readings around level v: ten dropouts to 0
\* and four spikes to ADC_MAX among seventeen readings of v.
Burst(v) ==
    [i \in 1..MEDIAN_SAMPLE_COUNT |->
        IF i % 3 = 0 THEN 0 ELSE IF i % 5 = 0 THEN ADC_MAX ELSE v]

\* What readTurbidityMedian returns for the burst around each level.
MedianOf == [v \in Levels \cup SteadyLevels |-> readTurbidityMedian(Burst(v))]

\* What the EEPROM can hold at power-on: erased cells, a record this
\* firmware saved, and damaged or foreign records.
ErasedRecord == CalData(<<65535, 65535>>, 65535, 65535, 65535)
SavedRecord(a, b) == saveCalibration(a, b).eeprom
BootRecords ==
    {ErasedRecord, SavedRecord(900, 300), SavedRecord(300, 300)}

\* ----------------------------------------------------------------------
\* Initial state: the statics as the program text initialises them
\* ----------------------------------------------------------------------
InitStatics ==
    /\ pc = "boot"
    /\ calStage = "CAL_NONE"
    /\ emaRaw = MinusOne
    /\ btn = [lastRaw |-> FALSE, debounced |-> FALSE, lastChange |-> 0,
              pressStart |-> 0, longFired |-> FALSE]
    /\ led = [pins |-> [p \in {STATUS_LED_PIN, PIN_LED} |-> FALSE],
              lastToggle |-> 0, ledState |-> FALSE]
    /\ lcdAvailable = FALSE
    /\ now = 0
    /\ row = <<>>
    /\ divZero = FALSE
    /\ watch = [heldSince |-> NoSample, released |-> TRUE, releasedBefore |-> TRUE,
                fired |-> FALSE, fires |-> 0, at |-> 0]
    /\ bootLoaded = FALSE
    /\ pressLog = <<>>

Init ==
    /\ InitStatics
    /\ cal = ZeroCal
    /\ calLoaded = FALSE
    /\ eeprom \in BootRecords

\* ----------------------------------------------------------------------
\* setup(): pins, the LCD probe (lcd tells whether a display answered),
\* loadCalibration, the splash delay.
\* ----------------------------------------------------------------------
Setup ==
    /\ pc = "boot"
    /\ \E lcd \in BOOLEAN :
          LET ld == loadCalibration(eeprom)
          IN  /\ led' = [led EXCEPT !.pins[STATUS_LED_PIN] = FALSE]
              /\ lcdAvailable' = lcd
              /\ cal' = ld.cal
              /\ calLoaded' = ld.calLoaded
              /\ bootLoaded' = ld.calLoaded
              /\ now' = now + SETUP_SERIAL_DELAY_MS
                             + (IF lcd THEN SETUP_SPLASH_DELAY_MS ELSE 0)
    /\ pc' = "run"
    /\ UNCHANGED <<eeprom, calStage, emaRaw, btn, row, divZero, watch, pressLog>>

\* ----------------------------------------------------------------------
\* loop()
\* ----------------------------------------------------------------------
\* Step 1: an uncalibrated device is put into the calibration flow.
EnterStage(loaded, stage) ==
    IF ~loaded /\ stage = "CAL_NONE" THEN "CAL_WAIT_CLEAR" ELSE stage

\* LongPressAction saving the two references in the wrong order.
LongPressActionSwapped(c, stored, loaded, stage, median) ==
    IF stage = "CAL_WAIT_CLEAR"
    THEN [cal |-> [c EXCEPT !.clearRaw = median],
          eeprom |-> stored, calLoaded |-> loaded, calStage |-> "CAL_WAIT_CLOUDY",
          sampled |-> median, ms |-> BurstMs + CAL_MESSAGE_DELAY_MS]
    ELSE IF stage = "CAL_WAIT_CLOUDY"
    THEN LET sv == saveCalibration(median, c.clearRaw)
         IN  [cal |-> sv.cal, eeprom |-> sv.eeprom, calLoaded |-> sv.calLoaded,
              calStage |-> "CAL_DONE", sampled |-> median,
              ms |-> BurstMs + CAL_MESSAGE_DELAY_MS]
    ELSE [cal |-> c, eeprom |-> stored, calLoaded |-> FALSE,
          calStage |-> "CAL_WAIT_CLEAR", sampled |-> NoSample,
          ms |-> CAL_MESSAGE_DELAY_MS]

\* LongPressAction writing the clear reference to the EEPROM as soon as it
\* is captured.
LongPressActionEarlyWrite(c, stored, loaded, stage, median) ==
    IF stage = "CAL_WAIT_CLEAR"
    THEN [cal |-> [c EXCEPT !.clearRaw = median],
          eeprom |-> [c EXCEPT !.clearRaw = median],
          calLoaded |-> loaded, calStage |-> "CAL_WAIT_CLOUDY",
          sampled |-> median, ms |-> BurstMs + CAL_MESSAGE_DELAY_MS]
    ELSE IF stage = "CAL_WAIT_CLOUDY"
    THEN LET sv == saveCalibration(c.clearRaw, median)
         IN  [cal |-> sv.cal, eeprom |-> sv.eeprom, calLoaded |-> sv.calLoaded,
              calStage |-> "CAL_DONE", sampled |-> median,
              ms |-> BurstMs + CAL_MESSAGE_DELAY_MS]
    ELSE [cal |-> c, eeprom |-> stored, calLoaded |-> FALSE,
          calStage |-> "CAL_WAIT_CLEAR", sampled |-> NoSample,
          ms |-> CAL_MESSAGE_DELAY_MS]

\* LongPressAction restarting from CAL_DONE with the old clear reference
\* kept: it asks for the cloudy capture only.
LongPressActionReusesClear(c, stored, loaded, stage, median) ==
    IF stage = "CAL_WAIT_CLEAR"
    THEN [cal |-> [c EXCEPT !.clearRaw = median],
          eeprom |-> stored, calLoaded |-> loaded, calStage |-> "CAL_WAIT_CLOUDY",
          sampled |-> median, ms |-> BurstMs + CAL_MESSAGE_DELAY_MS]
    ELSE IF stage = "CAL_WAIT_CLOUDY"
    THEN LET sv == saveCalibration(c.clearRaw, median)
         IN  [cal |-> sv.cal, eeprom |-> sv.eeprom, calLoaded |-> sv.calLoaded,
              calStage |-> "CAL_DONE", sampled |-> median,
              ms |-> BurstMs + CAL_MESSAGE_DELAY_MS]
    ELSE [cal |-> c, eeprom |-> stored, calLoaded |-> FALSE,
          calStage |-> "CAL_WAIT_CLOUDY", sampled |-> NoSample,
          ms |-> CAL_MESSAGE_DELAY_MS]

\* LongPressAction restarting without invalidating the loaded calibration.
LongPressActionKeepsLoaded(c, stored, loaded, stage, median) ==
    IF stage = "CAL_WAIT_CLEAR"
    THEN [cal |-> [c EXCEPT !.clearRaw = median],
          eeprom |-> stored, calLoaded |-> loaded, calStage |-> "CAL_WAIT_CLOUDY",
          sampled |-> median, ms |-> BurstMs + CAL_MESSAGE_DELAY_MS]
    ELSE IF stage = "CAL_WAIT_CLOUDY"
    THEN LET sv == saveCalibration(c.clearRaw, median)
         IN  [cal |-> sv.cal, eeprom |-> sv.eeprom, calLoaded |-> sv.calLoaded,
              calStage |-> "CAL_DONE", sampled |-> median,
              ms |-> BurstMs + CAL_MESSAGE_DELAY_MS]
    ELSE [cal |-> c, eeprom |-> stored, calLoaded |-> loaded,
          calStage |-> "CAL_WAIT_CLEAR", sampled |-> NoSample,
          ms |-> CAL_MESSAGE_DELAY_MS]

\* Step 2, the body of "if (buttonLongPressEvent())": the action of the
\* stage; median is what readTurbidityMedian returns to the two capturing
\* stages, ms the time the branch takes.
LongPressAction(c, stored, loaded, stage, median) ==
    IF stage = "CAL_WAIT_CLEAR"
    THEN [cal |-> [c EXCEPT !.clearRaw = median],
          eeprom |-> stored, calLoaded |-> loaded, calStage |-> "CAL_WAIT_CLOUDY",
          sampled |-> median, ms |-> BurstMs + CAL_MESSAGE_DELAY_MS]
    ELSE IF stage = "CAL_WAIT_CLOUDY"
    THEN LET sv == saveCalibration(c.clearRaw, median)
         IN  [cal |-> sv.cal, eeprom |-> sv.eeprom, calLoaded |-> sv.calLoaded,
              calStage |-> "CAL_DONE", sampled |-> median,
              ms |-> BurstMs + CAL_MESSAGE_DELAY_MS]
    ELSE [cal |-> c, eeprom |-> stored, calLoaded |-> FALSE,
          calStage |-> "CAL_WAIT_CLEAR", sampled |-> NoSample,
          ms |-> CAL_MESSAGE_DELAY_MS]

\* What an observer of the detector's calls keeps: since which call's clock
\* value the debounced state has been pressed without a break (NoSample when
\* it is released), whether a call has found it released since the last call
\* that returned true (and whether that was so before this call), what the
\* last call returned and at which clock value, and how many calls returned
\* true.  b is the result of the call made at t.
Observe(w, b, t) ==
    [heldSince |-> IF ~b.st.debounced THEN NoSample
                   ELSE IF w.heldSince = NoSample THEN t ELSE w.heldSince,
     released  |-> IF b.fired THEN FALSE ELSE (w.released \/ ~b.st.debounced),
     releasedBefore |-> w.released,
     fired     |-> b.fired,
     fires     |-> IF b.fired THEN w.fires + 1 ELSE w.fires,
     at        |-> t]

\* Step 5: the smoother.  The values emaRaw can get, one per way the build
\* evaluates "a * x + b * e": both products rounded and then the sum, or
\* either product fused with the addition.
Smooth(ema, rawMedian) ==
    LET x  == FromInt(rawMedian)
        e0 == IF FNeg(ema) THEN x ELSE ema
    IN  {FAdd(FMul(EMA_ALPHA, x), FMul(OneMinusAlpha, e0)),
         FMulAdd(EMA_ALPHA, x, FMul(OneMinusAlpha, e0)),
         FMulAdd(OneMinusAlpha, e0, FMul(EMA_ALPHA, x))}

\* One pass of loop(): rawPressed is the button level read, capture the
\* median a capturing long press samples, rawMedian the median the cycle
\* samples.  The locals are bound as the one element of a set: stage1 is
\* calStage after step 1, b the detector's result, a the outcome of step 2,
\* ema1 and emaRounded those of step 5, tLed the millis() updateLed reads.
LoopStep(rawPressed, capture, rawMedian) ==
    \E stage1 \in {EnterStage(calLoaded, calStage)},
       b \in {buttonLongPressEvent(btn, rawPressed, now)},
       ema1 \in Smooth(emaRaw, rawMedian) :
    \E a \in {IF b.fired
               THEN LongPressAction(cal, eeprom, calLoaded, stage1, capture)
               ELSE [cal |-> cal, eeprom |-> eeprom, calLoaded |-> calLoaded,
                     calStage |-> stage1, sampled |-> NoSample, ms |-> 0]},
       emaRounded \in {FTrunc(FAdd(ema1, Half)) % 65536} :
    LET tLed == now + a.ms + BurstMs
    IN  /\ btn' = b.st
        /\ watch' = Observe(watch, b, now)
        /\ cal' = a.cal
        /\ eeprom' = a.eeprom
        /\ calLoaded' = a.calLoaded
        /\ calStage' = a.calStage
        /\ pressLog' = IF b.fired
                       THEN Append(pressLog, [stage |-> stage1, median |-> a.sampled])
                       ELSE pressLog
        /\ emaRaw' = ema1
        /\ divZero' = DividesByZero(a.calLoaded, a.cal)
        /\ \E idx \in computeTurbidityIndex(emaRounded, a.calLoaded, a.cal) :
              /\ led' = updateLed(led, idx, tLed)
              /\ row' = <<[ms |-> tLed, rawMedian |-> rawMedian,
                           emaRounded |-> emaRounded, idx |-> idx,
                           status |-> classifyStatus(idx), fired |-> b.fired]>>
        /\ now' = tLed + LOOP_DELAY_MS
        /\ UNCHANGED <<pc, lcdAvailable, bootLoaded>>

\* loop() with any button level and any capture level, the sensor steady.
Loop ==
    /\ pc = "run"
    /\ now <= MaxTime
    /\ \E rawPressed \in BOOLEAN, cv \in Levels, v \in SteadyLevels :
          LoopStep(rawPressed, MedianOf[cv], MedianOf[v])

Next == Setup \/ Loop

Spec == Init /\ [][Next]_vars

\* ----------------------------------------------------------------------
\* The calibration flow in depth: the user holds the button until the long
\* press registers and lets go until the detector has seen the release.
\* ----------------------------------------------------------------------
LoopHeld ==
    /\ pc = "run"
    /\ now <= FlowMaxTime
    /\ \E cv \in Levels, v \in SteadyLevels :
          LoopStep(~btn.longFired, MedianOf[cv], MedianOf[v])

NextFlow == Setup \/ LoopHeld

SpecFlow == Init /\ [][NextFlow]_vars

\* ----------------------------------------------------------------------
\* Power-on alone, over the records the EEPROM can hold: erased cells,
\* records this firmware saved, damaged and foreign records.
\* ----------------------------------------------------------------------
StoredMagics == {CAL_MAGIC, <<21590, 21057>>, <<0, 0>>, <<65535, 65535>>}
StoredRaws == {0, 300, 900, 65535}
StoredCrcs(m, a, b) ==
    {0, 65535, checksum16(CalData(m, a, b, 0)),
     (checksum16(CalData(m, a, b, 0)) + 1) % 65536}
StoredRecords ==
    UNION {{CalData(m, a, b, c) : c \in StoredCrcs(m, a, b)} :
              m \in StoredMagics, a \in StoredRaws, b \in StoredRaws}

InitBoot ==
    /\ InitStatics
    /\ cal = ZeroCal
    /\ calLoaded = FALSE
    /\ eeprom \in StoredRecords

SpecBoot == InitBoot /\ [][Setup]_vars

\* ----------------------------------------------------------------------
\* The index mapper alone, over the calibration states the firmware can be
\* in (not loaded; loaded with any two references, equal ones included,
\* which two equal captures leave) and raw values of the ADC range.
\* ----------------------------------------------------------------------
MaxLowRaw == 210
CalPoints == {0, 40, 200, 300, 900, ADC_MAX}
RawInputs ==
    (0..MaxLowRaw) \cup {299, 300, 301, 450, 477, 600, 723, 899, 900, 901, ADC_MAX}

InitIndex ==
    /\ InitStatics
    /\ \E a \in CalPoints, b \in CalPoints, l \in BOOLEAN :
          /\ eeprom = SavedRecord(a, b)
          /\ cal = eeprom
          /\ calLoaded = l

\* One call of the mapper per behaviour.
IndexCall ==
    /\ row = <<>>
    /\ \E raw \in RawInputs :
          \E idx \in computeTurbidityIndex(raw, calLoaded, cal) :
              row' = <<[ms |-> now, rawMedian |-> raw, emaRounded |-> raw,
                       idx |-> idx, status |-> classifyStatus(idx),
                       fired |-> FALSE]>>
    /\ divZero' = DividesByZero(calLoaded, cal)
    /\ UNCHANGED <<pc, eeprom, cal, calLoaded, calStage, emaRaw, btn, led,
                   lcdAvailable, now, watch, bootLoaded, pressLog>>

SpecIndex == InitIndex /\ [][IndexCall]_vars

\* ----------------------------------------------------------------------
\* The long-press detector alone, polled with any level at any clock value
\* that does not decrease.
\* ----------------------------------------------------------------------
Ticks == {40, 1000}

ButtonCall ==
    /\ now <= ButtonMaxTime
    /\ \E rawPressed \in BOOLEAN, dt \in Ticks :
          LET b == buttonLongPressEvent(btn, rawPressed, now + dt)
          IN  /\ btn' = b.st
              /\ watch' = Observe(watch, b, now + dt)
              /\ now' = now + dt
    /\ UNCHANGED <<pc, eeprom, cal, calLoaded, calStage, emaRaw, led,
                   lcdAvailable, row, divZero, bootLoaded, pressLog>>

InitButton ==
    /\ InitStatics
    /\ cal = ZeroCal
    /\ calLoaded = FALSE
    /\ eeprom = ErasedRecord

SpecButton == InitButton /\ [][ButtonCall]_vars

\* ----------------------------------------------------------------------
\* The classifier alone, over every index of 0..100 and a margin on each
\* side (its parameter is an int).
\* ----------------------------------------------------------------------
IdxMargin == 4
IdxInputs == (0 - IdxMargin)..(100 + IdxMargin)

InitClassify ==
    /\ InitStatics
    /\ cal = ZeroCal
    /\ calLoaded = FALSE
    /\ eeprom = ErasedRecord

\* One call of the classifier per behaviour; the row keeps its argument and
\* its result.
ClassifyCall ==
    /\ row = <<>>
    /\ \E idx \in IdxInputs :
          row' = <<[ms |-> now, rawMedian |-> NoSample, emaRounded |-> NoSample,
                   idx |-> idx, status |-> classifyStatus(idx), fired |-> FALSE]>>
    /\ UNCHANGED <<pc, eeprom, cal, calLoaded, calStage, emaRaw, btn, led,
                   lcdAvailable, now, divZero, watch, bootLoaded, pressLog>>

SpecClassify == InitClassify /\ [][ClassifyCall]_vars

\* ----------------------------------------------------------------------
\* The sampler alone.  MedianCall is readTurbidityMedian on a burst of
\* MEDIAN_SAMPLE_COUNT readings; the bursts are the residues of a quadratic
\* in the reading's number, spread over the ADC range, which gives constant,
\* rising, falling, alternating and irregular bursts, all with many repeated
\* values.  SortCall is insertionSort on every short buffer over three
\* values.  The row keeps the buffer before and after the sort and, for
\* MedianCall, the value returned; the burst's delays move the clock.
\* ----------------------------------------------------------------------
MaxSquare == 1
MaxStride == 4
MaxOffset == 4
MaxMod == 7
MaxSortLen == 4
SortValues == {0, 300, ADC_MAX}

\* The reading that stands for residue r: even residues low, odd ones high.
Level(r) == IF r % 2 = 0 THEN 100 * r ELSE ADC_MAX - r

PatternBurst(a, b, c, m) ==
    [i \in 1..MEDIAN_SAMPLE_COUNT |-> Level((a * i * i + b * i + c) % m)]

InitMedian ==
    /\ InitStatics
    /\ cal = ZeroCal
    /\ calLoaded = FALSE
    /\ eeprom = ErasedRecord

MedianCall ==
    /\ row = <<>>
    /\ \E a \in 0..MaxSquare, b \in 0..MaxStride, c \in 0..MaxOffset, m \in 1..MaxMod :
          \E samples \in {PatternBurst(a, b, c, m)} :
              row' = <<[call |-> "readTurbidityMedian", samples |-> samples,
                       sorted |-> insertionSort(samples, MEDIAN_SAMPLE_COUNT),
                       rawMedian |-> readTurbidityMedian(samples)]>>
    /\ now' = now + BurstMs
    /\ UNCHANGED <<pc, eeprom, cal, calLoaded, calStage, emaRaw, btn, led,
                   lcdAvailable, divZero, watch, bootLoaded, pressLog>>

SortCall ==
    /\ row = <<>>
    /\ \E n \in 1..MaxSortLen :
          \E arr \in [1..n -> SortValues] :
              row' = <<[call |-> "insertionSort", samples |-> arr,
                       sorted |-> insertionSort(arr, n), rawMedian |-> NoSample]>>
    /\ UNCHANGED <<pc, eeprom, cal, calLoaded, calStage, emaRaw, btn, led,
                   lcdAvailable, now, divZero, watch, bootLoaded, pressLog>>

NextMedian == MedianCall \/ SortCall

SpecMedian == InitMedian /\ [][NextMedian]_vars

\* ----------------------------------------------------------------------
\* The smoother in loop(): the button is left alone and every cycle samples
\* any of a few medians of the ADC range.
\* ----------------------------------------------------------------------
SmoothMaxTime == 1600
SmoothInputs == {0, 13, 300, ADC_MAX}

LoopSampling ==
    /\ pc = "run"
    /\ now <= SmoothMaxTime
    /\ \E v \in SmoothInputs : LoopStep(FALSE, v, v)

NextSmooth == Setup \/ LoopSampling

SpecSmooth == Init /\ [][NextSmooth]_vars

\* ======================================================================
\* Claims
\* ======================================================================
LastPress == pressLog[Len(pressLog)]

\* C1 (Spec): on a device that boots without a valid calibration the stage
\* is CAL_WAIT_CLEAR after the first pass of loop() with no button event,
\* CAL_WAIT_CLOUDY after the first long-press event and CAL_DONE after the
\* second; after the second event the EEPROM record and cal both hold the
\* median sampled at the first event as clearRaw and the median sampled at
\* the second as cloudyRaw, and calLoaded is true.
C1_FreshDeviceCalibrates ==
    (pc = "run" /\ ~bootLoaded) =>
        /\ (Len(pressLog) = 0 /\ row # <<>>) => calStage = "CAL_WAIT_CLEAR"
        /\ Len(pressLog) >= 1 => pressLog[1].stage = "CAL_WAIT_CLEAR"
        /\ Len(pressLog) = 1 => calStage = "CAL_WAIT_CLOUDY"
        /\ Len(pressLog) >= 2 => pressLog[2].stage = "CAL_WAIT_CLOUDY"
        /\ Len(pressLog) = 2 =>
              /\ calStage = "CAL_DONE"
              /\ calLoaded
              /\ eeprom.clearRaw = pressLog[1].median
              /\ eeprom.cloudyRaw = pressLog[2].median
              /\ cal.clearRaw = pressLog[1].median
              /\ cal.cloudyRaw = pressLog[2].median

C1_Witness ==
    /\ pc = "run"
    /\ ~bootLoaded
    /\ Len(pressLog) = 2
    /\ pressLog[1].median = 900
    /\ pressLog[2].median = 300
    /\ eeprom = SavedRecord(900, 300)

\* C2 (Spec): whenever calLoaded is true the record has different
\* references, the expected signature and a matching checksum, and the
\* index mapper never divides by the zero difference of equal references.
C2_LoadedRecordIsValid ==
    /\ calLoaded =>
          /\ cal.clearRaw # cal.cloudyRaw
          /\ cal.magic = CAL_MAGIC
          /\ cal.crc = checksum16(cal)
    /\ ~divZero

\* C3 (SpecIndex): called with calLoaded true and equal references, the
\* index mapper does not divide by zero and returns one fixed value
\* whatever the raw input.
C3_DegenerateIsGuarded ==
    (row # <<>> /\ calLoaded /\ cal.clearRaw = cal.cloudyRaw) =>
        /\ ~divZero
        /\ \A r \in RawInputs :
              computeTurbidityIndex(r, calLoaded, cal) = {row[1].idx}

\* C4 (SpecBoot): setup() can always run loadCalibration to its end, and
\* after it calLoaded is true exactly when the stored record has the
\* expected signature, the checksum of its other fields and two different
\* references.
C4_LoadAcceptsExactlyValid ==
    /\ pc = "boot" => ENABLED Setup
    /\ pc = "run" =>
          /\ cal = eeprom
          /\ calLoaded = (/\ eeprom.magic = CAL_MAGIC
                          /\ eeprom.crc = checksum16(eeprom)
                          /\ eeprom.clearRaw # eeprom.cloudyRaw)

C4_Witness ==
    /\ pc = "run"
    /\ eeprom.magic = CAL_MAGIC
    /\ eeprom.crc = checksum16(eeprom)
    /\ eeprom.clearRaw = eeprom.cloudyRaw
    /\ ~calLoaded

\* C5 (Spec): a step changes the EEPROM record only if it is a pass of
\* loop() with a long-press event in stage CAL_WAIT_CLOUDY, and then the
\* new record holds the signature, the clear reference captured by the
\* preceding event, the cloudy reference captured by this one and the
\* matching checksum.
C5_OnlyTheCloudyCaptureWrites ==
    [][eeprom' # eeprom =>
          /\ calStage = "CAL_WAIT_CLOUDY"
          /\ row'[1].fired
          /\ Len(pressLog') = Len(pressLog) + 1
          /\ pressLog # <<>>
          /\ LastPress.stage = "CAL_WAIT_CLEAR"
          /\ eeprom'.magic = CAL_MAGIC
          /\ eeprom'.clearRaw = LastPress.median
          /\ eeprom'.cloudyRaw = pressLog'[Len(pressLog')].median
          /\ eeprom'.crc = checksum16(eeprom')
          /\ calStage' = "CAL_DONE"]_vars

C5_Witness ==
    /\ pc = "run"
    /\ eeprom = SavedRecord(300, 900)
    /\ Len(pressLog) = 2
    /\ ~bootLoaded

\* C6 (SpecFlow): after a long-press event in stage CAL_DONE calLoaded is
\* false and the stage is CAL_WAIT_CLEAR; calLoaded stays false until the
\* second event after that one, and the record saved then has the median
\* sampled at the first of those two events as clearRaw.
C6_RestartNeedsTwoCaptures ==
    \A i \in 1..Len(pressLog) :
        pressLog[i].stage = "CAL_DONE" =>
            /\ Len(pressLog) = i => ~calLoaded /\ calStage = "CAL_WAIT_CLEAR"
            /\ Len(pressLog) > i => pressLog[i + 1].stage = "CAL_WAIT_CLEAR"
            /\ Len(pressLog) = i + 1 => ~calLoaded /\ calStage = "CAL_WAIT_CLOUDY"
            /\ Len(pressLog) = i + 2 =>
                  /\ calLoaded
                  /\ calStage = "CAL_DONE"
                  /\ cal.clearRaw = pressLog[i + 1].median
                  /\ eeprom.clearRaw = pressLog[i + 1].median
                  /\ eeprom.cloudyRaw = pressLog[i + 2].median

C6_Witness ==
    /\ Len(pressLog) = 5
    /\ pressLog[3].stage = "CAL_DONE"
    /\ pressLog[1].median = 300
    /\ pressLog[4].median = 900
    /\ eeprom.clearRaw = 900

MinRef == IF cal.clearRaw < cal.cloudyRaw THEN cal.clearRaw ELSE cal.cloudyRaw
MaxRef == IF cal.clearRaw < cal.cloudyRaw THEN cal.cloudyRaw ELSE cal.clearRaw

\* C7 (SpecIndex): for every raw value and calibration state the index is
\* in 0..100; with a loaded calibration a raw value below the lower or
\* above the higher reference gives 0 or 100: 0 beyond the clear reference
\* and 100 beyond the cloudy one when the references differ.
C7_IndexIsClamped ==
    row # <<>> =>
        LET raw == row[1].emaRounded
            idx == row[1].idx
        IN  /\ idx \in 0..100
            /\ (calLoaded /\ (raw < MinRef \/ raw > MaxRef)) => idx \in {0, 100}
            /\ (calLoaded /\ cal.clearRaw < cal.cloudyRaw /\ raw < cal.clearRaw) => idx = 0
            /\ (calLoaded /\ cal.clearRaw < cal.cloudyRaw /\ raw > cal.cloudyRaw) => idx = 100
            /\ (calLoaded /\ cal.clearRaw > cal.cloudyRaw /\ raw > cal.clearRaw) => idx = 0
            /\ (calLoaded /\ cal.clearRaw > cal.cloudyRaw /\ raw < cal.cloudyRaw) => idx = 100

C7_Witness ==
    /\ row # <<>>
    /\ calLoaded
    /\ cal.clearRaw = 900
    /\ cal.cloudyRaw = 300
    /\ row[1].emaRounded = 901
    /\ row[1].idx = 0

\* C8 (SpecIndex): with a loaded calibration of two different references
\* the index is 0 at the clear reference, 100 at the cloudy one, 49..51 at
\* the midpoint of 900 and 300, and between the references it is
\* 100 * (raw - clearRaw) / (cloudyRaw - clearRaw) rounded half-up.
C8_IndexIsRoundedHalfUp ==
    (row # <<>> /\ calLoaded /\ cal.clearRaw # cal.cloudyRaw) =>
        LET raw == row[1].emaRounded
            idx == row[1].idx
            num == IF raw > cal.clearRaw THEN raw - cal.clearRaw ELSE cal.clearRaw - raw
            den == MaxRef - MinRef
        IN  /\ raw = cal.clearRaw => idx = 0
            /\ raw = cal.cloudyRaw => idx = 100
            /\ (cal.clearRaw = 900 /\ cal.cloudyRaw = 300 /\ raw = 600) => idx \in 49..51
            /\ (MinRef <= raw /\ raw <= MaxRef) =>
                  idx = (200 * num + den) \div (2 * den)

\* C9 (Spec): after every cycle the pin setup() configures as the status
\* LED output is low when the cycle classifies as CLEAR and high when it
\* classifies as TURBID, and a MODERATE cycle that finds 700 ms elapsed
\* since the last toggle inverts it.
C9_StatusLedShowsTheClass ==
    [][row' # row =>
          /\ row'[1].status = "CLEAR" => led'.pins[STATUS_LED_PIN] = FALSE
          /\ row'[1].status = "TURBID" => led'.pins[STATUS_LED_PIN] = TRUE
          /\ (row'[1].status = "MODERATE"
                /\ row'[1].ms - led.lastToggle >= LED_TOGGLE_MS) =>
                led'.pins[STATUS_LED_PIN] = ~led.pins[STATUS_LED_PIN]]_vars

\* C10 (SpecButton): a call of the detector returns true only if a call
\* has found the debounced state released since the last call that
\* returned true, and only if the debounced state has been pressed at every
\* call since one made at least LONG_PRESS_MS earlier.
C10_OneEventPerHold ==
    watch.fired =>
        /\ watch.releasedBefore
        /\ btn.debounced
        /\ watch.heldSince # NoSample
        /\ watch.at - watch.heldSince >= LONG_PRESS_MS

C10_Witness ==
    /\ watch.fired
    /\ watch.fires = 2

\* C11 (SpecClassify): classifyStatus returns one of the three classes for
\* every index, CLEAR exactly for idx < 30, MODERATE exactly for
\* 30 <= idx < 70 and TURBID exactly for idx >= 70.
C11_ClassifierBands ==
    row # <<>> =>
        LET idx == row[1].idx
            status == row[1].status
        IN  /\ status \in {"CLEAR", "MODERATE", "TURBID"}
            /\ status = "CLEAR" <=> idx < 30
            /\ status = "MODERATE" <=> (30 <= idx /\ idx < 70)
            /\ status = "TURBID" <=> idx >= 70

C11_Witness ==
    /\ row # <<>>
    /\ row[1].rawMedian = NoSample
    /\ row[1].idx = 30
    /\ row[1].status = "MODERATE"

\* How many places of buffer s hold a value that satisfies Test.
CountOf(s, Test(_)) == Cardinality({i \in DOMAIN s : Test(s[i])})

\* C12 (SpecMedian): insertionSort leaves the buffer in ascending order with
\* every value as often as before, and readTurbidityMedian returns the
\* element at position K/2 of that order, a reading of the burst with at
\* most K/2 readings below it and at most K/2 above it.
C12_MedianOfBurst ==
    row # <<>> =>
        LET samples == row[1].samples
            sorted == row[1].sorted
            median == row[1].rawMedian
            K == Len(samples)
        IN  /\ Len(sorted) = K
            /\ \A i \in 1..(K - 1) : sorted[i] <= sorted[i + 1]
            /\ \A i \in 1..K :
                  LET Same(x) == x = samples[i]
                  IN  CountOf(sorted, Same) = CountOf(samples, Same)
            /\ row[1].call = "readTurbidityMedian" =>
                  LET Below(x) == x < median
                      Above(x) == x > median
                  IN  /\ K = 31
                      /\ median = sorted[16]
                      /\ \E i \in 1..K : samples[i] = median
                      /\ CountOf(samples, Below) <= 15
                      /\ CountOf(samples, Above) <= 15

C12_Witness ==
    /\ row # <<>>
    /\ row[1].call = "readTurbidityMedian"
    /\ row[1].samples # row[1].sorted
    /\ Cardinality({row[1].samples[i] : i \in 1..31}) >= 5
    /\ Cardinality({i \in 1..31 : row[1].samples[i] = row[1].rawMedian}) >= 2
    /\ row[1].samples[16] # row[1].rawMedian

\* C13 (SpecSmooth): emaRaw is the sentinel exactly until the first cycle;
\* the first cycle leaves it equal to the median it sampled, every later
\* cycle leaves it at EMA_ALPHA * sample + (1 - EMA_ALPHA) * its previous
\* value (as the build evaluates that expression), no cycle leaves it
\* negative, and a cycle that samples the value it already holds leaves it
\* unchanged.
C13_SmoothedSignal ==
    [][row' # row =>
          LET sample == FromInt(row'[1].rawMedian)
          IN  /\ FNeg(emaRaw) <=> row = <<>>
              /\ FNeg(emaRaw) => emaRaw' = sample
              /\ ~FNeg(emaRaw) =>
                    emaRaw' \in {FAdd(FMul(EMA_ALPHA, sample), FMul(OneMinusAlpha, emaRaw)),
                                 FMulAdd(EMA_ALPHA, sample, FMul(OneMinusAlpha, emaRaw)),
                                 FMulAdd(OneMinusAlpha, emaRaw, FMul(EMA_ALPHA, sample))}
              /\ ~FNeg(emaRaw')
              /\ emaRaw = sample => emaRaw' = emaRaw]_vars

\* C14 (SpecFlow): when a pass of loop() samples the sensor and computes the
\* index, calLoaded is true exactly if the stage is CAL_NONE or CAL_DONE,
\* and no step takes the stage back to CAL_NONE once it has left it.
C14_LoadedIffNoneOrDone ==
    [][/\ row' # row => (calLoaded' <=> calStage' \in {"CAL_NONE", "CAL_DONE"})
       /\ calStage # "CAL_NONE" => calStage' # "CAL_NONE"]_vars

C14_Witness ==
    /\ bootLoaded
    /\ Len(pressLog) = 2
    /\ pressLog[1].stage = "CAL_NONE"
    /\ calStage = "CAL_WAIT_CLOUDY"
    /\ ~calLoaded
====
